---- MODULE Spec2Model ----
(***************************************************************************)
(* Job Search API (src/Application/backend.py): users, jobs, applications, *)
(* bearer tokens and the request handlers that act on them.                *)
(*                                                                         *)
(* The three tables are sequences in primary-key order (the id of a row is *)
(* its index: rows are never deleted, so SQLite hands out 1, 2, 3, ...).   *)
(* A handler is a sequence of steps, one per database statement, so that   *)
(* requests served by different workers interleave exactly where the       *)
(* database lets them.  A handler step that raises ends the request with   *)
(* the response FastAPI builds for the exception.                          *)
(***************************************************************************)
EXTENDS Integers, Sequences, FiniteSets, TLC

VARIABLES
    users,          \* table "users"
    jobs,           \* table "jobs"
    applications,   \* table "applications"
    outbox,         \* what EmailService.send_application_confirmation has sent
    now,            \* the wall clock, in ticks of 1/TicksPerSecond seconds
    issued,         \* the tokens handed out so far, each with its time of issue
    req,            \* per worker: the request it is serving, or its last response
    started,        \* number of requests started so far
    probe           \* the last direct call of get_current_user_email

vars == <<users, jobs, applications, outbox, now, issued, req, started, probe>>

(***************************************************************************)
(* Bounds of the model.                                                    *)
(***************************************************************************)
MaxRequests == 2        \* requests started in one behaviour
TicksPerSecond == 2     \* resolution of the clock
SlackTicks == 5         \* how far the clock runs past one token lifetime

(***************************************************************************)
(* Python values.                                                          *)
(***************************************************************************)
None == "<None>"

(***************************************************************************)
(* Text.  SQLite's LIKE: % matches any run of characters, _ any one        *)
(* character, and letters A-Z match without regard to case.                *)
(***************************************************************************)
UpperChars == "ABCDEFGHIJKLMNOPQRSTUVWXYZ"
LowerChars == "abcdefghijklmnopqrstuvwxyz"

CharAt(s, i) == SubSeq(s, i, i)

ToLower == [c \in {CharAt(UpperChars, i) : i \in 1..26} |->
              CharAt(LowerChars, CHOOSE i \in 1..26 : CharAt(UpperChars, i) = c)]

Lower(c) == IF c \in DOMAIN ToLower THEN ToLower[c] ELSE c

RECURSIVE LikeAt(_, _, _, _)
LikeAt(pat, i, s, j) ==
    IF i > Len(pat) THEN j > Len(s)
    ELSE IF CharAt(pat, i) = "%"
         THEN \E k \in j..(Len(s) + 1) : LikeAt(pat, i + 1, s, k)
         ELSE /\ j <= Len(s)
              /\ \/ CharAt(pat, i) = "_"
                 \/ Lower(CharAt(pat, i)) = Lower(CharAt(s, j))
              /\ LikeAt(pat, i + 1, s, j + 1)

Like(s, pat) == LikeAt(pat, 1, s, 1)

\* Column.contains(other): column LIKE '%' || other || '%'
contains(column, other) == Like(column, "%" \o other \o "%")

\* Python's truth test of an Optional[str] query parameter
Truthy(s) == s # None /\ s # ""

(***************************************************************************)
(* The static seed dataset of get_jobs (title, company, location and       *)
(* category of each of the 85 postings, in the order of the list).         *)
(***************************************************************************)
sample_jobs ==
<<
    [title |-> "Flutter Developer", company |-> "Tech Corp", location |-> "New York, NY", category |-> "IT"],
    [title |-> "Data Analyst", company |-> "Data Insights", location |-> "San Francisco, CA", category |-> "IT"],
    [title |-> "Senior Python Developer", company |-> "CodeCraft Inc", location |-> "Austin, TX", category |-> "IT"],
    [title |-> "Product Manager", company |-> "Innovation Labs", location |-> "Seattle, WA", category |-> "IT"],
    [title |-> "UX Designer", company |-> "Design Studio", location |-> "Los Angeles, CA", category |-> "IT"],
    [title |-> "DevOps Engineer", company |-> "Cloud Solutions", location |-> "Remote", category |-> "IT"],
    [title |-> "React Developer", company |-> "WebDev Co", location |-> "Denver, CO", category |-> "IT"],
    [title |-> "Mobile App Tester", company |-> "QA Masters", location |-> "Remote", category |-> "IT"],
    [title |-> "Data Scientist", company |-> "AI Innovations", location |-> "San Francisco, CA", category |-> "IT"],
    [title |-> "Backend Engineer", company |-> "StartupXYZ", location |-> "New York, NY", category |-> "IT"],
    [title |-> "Java Developer", company |-> "Enterprise Solutions", location |-> "Atlanta, GA", category |-> "IT"],
    [title |-> "iOS Developer", company |-> "Mobile First", location |-> "San Jose, CA", category |-> "IT"],
    [title |-> "Full Stack Developer", company |-> "Tech Startup", location |-> "Remote", category |-> "IT"],
    [title |-> "AI/ML Engineer", company |-> "Deep Learning Co", location |-> "Boston, MA", category |-> "IT"],
    [title |-> "Cybersecurity Analyst", company |-> "SecureNet", location |-> "Remote", category |-> "IT"],
    [title |-> "Database Administrator", company |-> "DataSafe Inc", location |-> "Chicago, IL", category |-> "IT"],
    [title |-> "Cloud Architect", company |-> "CloudTech", location |-> "Remote", category |-> "IT"],
    [title |-> "Software Tester", company |-> "QA Solutions", location |-> "Austin, TX", category |-> "IT"],
    [title |-> "Technical Writer", company |-> "DocTech", location |-> "Remote", category |-> "IT"],
    [title |-> "Network Engineer", company |-> "NetWorks LLC", location |-> "Houston, TX", category |-> "IT"],
    [title |-> "Marketing Manager", company |-> "Marketing Pro", location |-> "Remote", category |-> "Marketing"],
    [title |-> "Sales Representative", company |-> "SalesPro Corp", location |-> "Chicago, IL", category |-> "Marketing"],
    [title |-> "Content Writer", company |-> "MediaWorks", location |-> "Remote", category |-> "Marketing"],
    [title |-> "Graphic Designer", company |-> "Creative Agency", location |-> "Miami, FL", category |-> "Marketing"],
    [title |-> "SEO Specialist", company |-> "Digital Growth", location |-> "Remote", category |-> "Marketing"],
    [title |-> "Social Media Manager", company |-> "Brand Builders", location |-> "Remote", category |-> "Marketing"],
    [title |-> "Digital Marketing Specialist", company |-> "AdTech Solutions", location |-> "Los Angeles, CA", category |-> "Marketing"],
    [title |-> "Brand Manager", company |-> "Consumer Goods Co", location |-> "New York, NY", category |-> "Marketing"],
    [title |-> "Email Marketing Specialist", company |-> "EmailPro", location |-> "Remote", category |-> "Marketing"],
    [title |-> "Public Relations Manager", company |-> "PR Experts", location |-> "Washington DC", category |-> "Marketing"],
    [title |-> "Video Editor", company |-> "Media Production", location |-> "Remote", category |-> "Marketing"],
    [title |-> "Copywriter", company |-> "Ad Agency", location |-> "Chicago, IL", category |-> "Marketing"],
    [title |-> "Marketing Analyst", company |-> "Analytics Co", location |-> "Remote", category |-> "Marketing"],
    [title |-> "Event Coordinator", company |-> "Events Plus", location |-> "Las Vegas, NV", category |-> "Marketing"],
    [title |-> "Influencer Marketing Manager", company |-> "Social Reach", location |-> "Remote", category |-> "Marketing"],
    [title |-> "Mechanical Engineer", company |-> "AutoTech Inc", location |-> "Detroit, MI", category |-> "Other"],
    [title |-> "Electrical Engineer", company |-> "PowerGrid Solutions", location |-> "Houston, TX", category |-> "Other"],
    [title |-> "Civil Engineer", company |-> "Construction Pros", location |-> "Phoenix, AZ", category |-> "Other"],
    [title |-> "Chemical Engineer", company |-> "ChemTech Industries", location |-> "Newark, NJ", category |-> "Other"],
    [title |-> "Biomedical Engineer", company |-> "MedDevice Corp", location |-> "Boston, MA", category |-> "Other"],
    [title |-> "Aerospace Engineer", company |-> "AeroSpace Systems", location |-> "Seattle, WA", category |-> "Other"],
    [title |-> "Industrial Engineer", company |-> "Manufacturing Co", location |-> "Cleveland, OH", category |-> "Other"],
    [title |-> "Quality Engineer", company |-> "QualityFirst", location |-> "San Diego, CA", category |-> "Other"],
    [title |-> "Process Engineer", company |-> "Tech Manufacturing", location |-> "Austin, TX", category |-> "Other"],
    [title |-> "Environmental Engineer", company |-> "EcoSolutions", location |-> "Portland, OR", category |-> "Other"],
    [title |-> "Structural Engineer", company |-> "BuildRight", location |-> "Miami, FL", category |-> "Other"],
    [title |-> "Systems Engineer", company |-> "Defense Systems", location |-> "Arlington, VA", category |-> "Other"],
    [title |-> "Manufacturing Engineer", company |-> "Auto Parts Inc", location |-> "Detroit, MI", category |-> "Other"],
    [title |-> "Petroleum Engineer", company |-> "Energy Corp", location |-> "Dallas, TX", category |-> "Other"],
    [title |-> "Materials Engineer", company |-> "Advanced Materials", location |-> "Pittsburgh, PA", category |-> "Other"],
    [title |-> "Financial Analyst", company |-> "FinTech Solutions", location |-> "Boston, MA", category |-> "Finance"],
    [title |-> "Accountant", company |-> "Accounting Firm", location |-> "New York, NY", category |-> "Finance"],
    [title |-> "Investment Banker", company |-> "Goldman & Associates", location |-> "New York, NY", category |-> "Finance"],
    [title |-> "Tax Advisor", company |-> "Tax Experts", location |-> "Chicago, IL", category |-> "Finance"],
    [title |-> "Auditor", company |-> "Audit Solutions", location |-> "Atlanta, GA", category |-> "Finance"],
    [title |-> "Business Analyst", company |-> "Consulting Group", location |-> "Washington DC", category |-> "Other"],
    [title |-> "Management Consultant", company |-> "Strategy Consultants", location |-> "San Francisco, CA", category |-> "Other"],
    [title |-> "Operations Manager", company |-> "Logistics Co", location |-> "Memphis, TN", category |-> "Other"],
    [title |-> "Risk Analyst", company |-> "Insurance Corp", location |-> "Hartford, CT", category |-> "Finance"],
    [title |-> "Portfolio Manager", company |-> "Investment Firm", location |-> "New York, NY", category |-> "Finance"],
    [title |-> "Financial Controller", company |-> "Manufacturing Corp", location |-> "Cleveland, OH", category |-> "Finance"],
    [title |-> "Budget Analyst", company |-> "Government Agency", location |-> "Washington DC", category |-> "Finance"],
    [title |-> "Credit Analyst", company |-> "Banking Corp", location |-> "Charlotte, NC", category |-> "Finance"],
    [title |-> "Supply Chain Manager", company |-> "Retail Giant", location |-> "Bentonville, AR", category |-> "Other"],
    [title |-> "Compliance Officer", company |-> "Financial Services", location |-> "New York, NY", category |-> "Finance"],
    [title |-> "Registered Nurse", company |-> "City Hospital", location |-> "Los Angeles, CA", category |-> "Other"],
    [title |-> "Pharmacist", company |-> "Pharmacy Chain", location |-> "Phoenix, AZ", category |-> "Other"],
    [title |-> "Medical Laboratory Technician", company |-> "LabCorp", location |-> "Burlington, NC", category |-> "Other"],
    [title |-> "Physical Therapist", company |-> "Rehab Center", location |-> "Denver, CO", category |-> "Other"],
    [title |-> "Research Scientist", company |-> "Biotech Labs", location |-> "San Diego, CA", category |-> "Other"],
    [title |-> "Clinical Research Coordinator", company |-> "Pharma Inc", location |-> "Boston, MA", category |-> "Other"],
    [title |-> "Medical Writer", company |-> "HealthComm", location |-> "Remote", category |-> "Other"],
    [title |-> "Radiologic Technologist", company |-> "Imaging Center", location |-> "Houston, TX", category |-> "Other"],
    [title |-> "Bioinformatics Specialist", company |-> "Genomics Lab", location |-> "San Francisco, CA", category |-> "Other"],
    [title |-> "Occupational Therapist", company |-> "Healthcare Services", location |-> "Seattle, WA", category |-> "Other"],
    [title |-> "Software Training Instructor", company |-> "Tech Academy", location |-> "Remote", category |-> "Other"],
    [title |-> "HR Manager", company |-> "PeopleFirst Inc", location |-> "Dallas, TX", category |-> "Other"],
    [title |-> "Project Manager", company |-> "Construction Plus", location |-> "Phoenix, AZ", category |-> "Other"],
    [title |-> "Customer Success Manager", company |-> "SaaS Company", location |-> "Remote", category |-> "Other"],
    [title |-> "Legal Assistant", company |-> "Law Firm", location |-> "New York, NY", category |-> "Other"],
    [title |-> "Executive Assistant", company |-> "Corporate HQ", location |-> "San Francisco, CA", category |-> "Other"],
    [title |-> "Translator", company |-> "Language Services", location |-> "Remote", category |-> "Other"],
    [title |-> "Urban Planner", company |-> "City Planning Dept", location |-> "Portland, OR", category |-> "Other"],
    [title |-> "Real Estate Agent", company |-> "Realty Group", location |-> "Miami, FL", category |-> "Other"],
    [title |-> "Interior Designer", company |-> "Design Interiors", location |-> "New York, NY", category |-> "Other"]
>>

(***************************************************************************)
(* Passwords.  A password is a sequence of characters and a character is   *)
(* the tuple of the bytes of its UTF-8 encoding.                           *)
(***************************************************************************)
MaxPasswordBytes == 72

RECURSIVE Flatten(_)
Flatten(seqs) == IF seqs = <<>> THEN <<>> ELSE Head(seqs) \o Flatten(Tail(seqs))

\* str.encode('utf-8')
encode_utf8(text) == Flatten(text)

\* bytes[:n]
Take(bytes, n) == SubSeq(bytes, 1, IF Len(bytes) < n THEN Len(bytes) ELSE n)

\* number of bytes of the character a lead byte opens, 0 if it opens none
Utf8Width(byte) ==
    IF byte < 128 THEN 1
    ELSE IF byte >= 194 /\ byte <= 223 THEN 2
    ELSE IF byte >= 224 /\ byte <= 239 THEN 3
    ELSE IF byte >= 240 /\ byte <= 244 THEN 4
    ELSE 0

IsContinuation(byte) == byte >= 128 /\ byte <= 191

\* bytes.decode('utf-8', errors='ignore'): bytes that form no character are dropped
RECURSIVE DecodeFrom(_, _)
DecodeFrom(bytes, i) ==
    IF i > Len(bytes) THEN <<>>
    ELSE LET w == Utf8Width(bytes[i])
             whole == /\ w > 0
                      /\ i + w - 1 <= Len(bytes)
                      /\ \A k \in (i + 1)..(i + w - 1) : IsContinuation(bytes[k])
         IN  IF whole THEN <<SubSeq(bytes, i, i + w - 1)>> \o DecodeFrom(bytes, i + w)
             ELSE DecodeFrom(bytes, i + 1)

decode_utf8_ignore(bytes) == DecodeFrom(bytes, 1)

\* a truncation that counts characters, not bytes
truncate_characters(password) == Take(password, MaxPasswordBytes)

\* password.encode('utf-8')[:72].decode('utf-8', errors='ignore')
truncate_password(password) ==
    decode_utf8_ignore(Take(encode_utf8(password), MaxPasswordBytes))

\* bcrypt: a one-way function of the salt and of the first 72 bytes of the secret
bcrypt(salt, secret) == [salt |-> salt, key |-> Take(encode_utf8(secret), MaxPasswordBytes)]

Salts == {"s1", "s2"}

\* get_password_hash(password), for the salt passlib draws
get_password_hash(password, salt) == bcrypt(salt, truncate_password(password))

verify_password(plain_password, hashed_password) ==
    bcrypt(hashed_password.salt, truncate_password(plain_password)) = hashed_password

(***************************************************************************)
(* Tokens.  jwt.encode writes the expiry as a NumericDate in whole         *)
(* seconds; jwt.decode checks the signature first and then the expiry      *)
(* against the current time (PyJWT 2.x: a token is expired once            *)
(* exp <= now).                                                            *)
(***************************************************************************)
ACCESS_TOKEN_EXPIRE_MINUTES == 30
SecondsPerMinute == 60

TokenLifetimeTicks == ACCESS_TOKEN_EXPIRE_MINUTES * SecondsPerMinute * TicksPerSecond

\* timegm(t.utctimetuple()): whole seconds of an instant given in ticks
WholeSeconds(t) == t \div TicksPerSecond

create_access_token(data, t) ==
    [fmt |-> "jwt", sig |-> "good", sub |-> data.sub,
     exp |-> WholeSeconds(t + TokenLifetimeTicks)]

\* an expiry check that still accepts a token at the instant it expires
IsExpiredAfter(exp, t) == exp * TicksPerSecond < t

\* _validate_exp of jwt.decode
IsExpired(exp, t) == exp * TicksPerSecond <= t

\* jwt.decode(token, SECRET_KEY, algorithms=[ALGORITHM]) at time t: the
\* exception it raises (None if it returns the payload)
jwt_decode_raises(token, t) ==
    IF token.fmt # "jwt" THEN "DecodeError"
    ELSE IF token.sig # "good" THEN "InvalidSignatureError"
    ELSE IF IsExpired(token.exp, t) THEN "ExpiredSignatureError"
    ELSE None

\* the exception classes module jwt exports
JwtExceptions == {"PyJWTError", "InvalidTokenError", "DecodeError",
                  "InvalidSignatureError", "ExpiredSignatureError",
                  "InvalidAudienceError", "InvalidIssuerError",
                  "InvalidIssuedAtError", "ImmatureSignatureError",
                  "InvalidKeyError", "InvalidAlgorithmError",
                  "MissingRequiredClaimError"}

\* the base classes of an exception class, itself included
Bases(exc) ==
    CASE exc \in {"DecodeError", "ExpiredSignatureError", "InvalidAudienceError",
                  "InvalidIssuerError", "InvalidIssuedAtError",
                  "ImmatureSignatureError", "InvalidAlgorithmError",
                  "MissingRequiredClaimError"}
           -> {exc, "InvalidTokenError", "PyJWTError", "Exception"}
      [] exc = "InvalidSignatureError"
           -> {exc, "DecodeError", "InvalidTokenError", "PyJWTError", "Exception"}
      [] exc = "InvalidTokenError" -> {exc, "PyJWTError", "Exception"}
      [] OTHER -> {exc, "Exception"}

Response(status, detail, body) == [status |-> status, detail |-> detail, body |-> body]

HTTPException(status, detail) == Response(status, detail, None)

\* what the server answers when a handler lets an exception escape
Unhandled(exc) == Response(500, "Internal Server Error", exc)

\* The except clauses of get_current_user_email, tried in order for the
\* exception exc raised in its try block.  Python evaluates the expression of
\* a clause when it reaches it: a name module jwt does not export raises
\* AttributeError in place of exc.
RECURSIVE ExceptClauses(_, _)
ExceptClauses(exc, clauses) ==
    IF clauses = <<>> THEN Unhandled(exc)
    ELSE LET clause == Head(clauses)
         IN  IF clause.class \notin JwtExceptions THEN Unhandled("AttributeError")
             ELSE IF clause.class \in Bases(exc) THEN clause.raises
             ELSE ExceptClauses(exc, Tail(clauses))

\* security = HTTPBearer(): a request without bearer credentials is refused
NoCredentials == [fmt |-> "absent", sig |-> None, sub |-> None, exp |-> 0]

\* get_current_user_email(credentials) at time t: the email it returns, or
\* the response of the exception it raises
Returns(value) == [ok |-> TRUE, value |-> value, error |-> Response(200, "", None)]
Raises(response) == [ok |-> FALSE, value |-> None, error |-> response]

get_current_user_email(credentials, t) ==
    LET handlers == <<[class |-> "ExpiredSignatureError",
                       raises |-> HTTPException(401, "Token has expired")],
                      [class |-> "JWTError",
                       raises |-> HTTPException(401, "Could not validate credentials")]>>
        raised == jwt_decode_raises(credentials, t)
    IN  IF credentials = NoCredentials
          THEN Raises(HTTPException(403, "Not authenticated"))
        ELSE IF raised # None THEN Raises(ExceptClauses(raised, handlers))
        ELSE IF credentials.sub = None
          THEN Raises(ExceptClauses("HTTPException", handlers))
        ELSE Returns(credentials.sub)

(***************************************************************************)
(* Dates.  datetime.strptime(text, "%Y-%m-%d").date(): four digits, a      *)
(* month and a day of one or two digits, and a day the month has.          *)
(***************************************************************************)
Digits == "0123456789"

DigitValue(c) == (CHOOSE i \in 1..10 : CharAt(Digits, i) = c) - 1

IsDigit(c) == \E i \in 1..10 : CharAt(Digits, i) = c

AllDigits(s) == \A i \in 1..Len(s) : IsDigit(CharAt(s, i))

RECURSIVE Number(_)
Number(s) ==
    IF Len(s) = 0 THEN 0
    ELSE 10 * Number(SubSeq(s, 1, Len(s) - 1)) + DigitValue(CharAt(s, Len(s)))

IsLeap(y) == (y % 4 = 0 /\ y % 100 # 0) \/ y % 400 = 0

DaysIn(y, m) ==
    IF m = 2 THEN (IF IsLeap(y) THEN 29 ELSE 28)
    ELSE IF m \in {4, 6, 9, 11} THEN 30 ELSE 31

\* text[i..j], empty where the text has no such characters
Slice(text, i, j) == IF i >= 1 /\ i <= j /\ j <= Len(text) THEN SubSeq(text, i, j) ELSE ""

\* the ways to read text as <year>-<month>-<day>
DateReadings(text) ==
    {r \in [y : {Slice(text, 1, 4)},
            m : {Slice(text, 6, k) : k \in 6..7},
            d : {Slice(text, k, Len(text)) : k \in 8..9}] :
        /\ text = r.y \o "-" \o r.m \o "-" \o r.d
        /\ Len(r.y) = 4 /\ AllDigits(r.y) /\ Number(r.y) >= 1
        /\ Len(r.m) \in 1..2 /\ AllDigits(r.m) /\ Number(r.m) \in 1..12
        /\ Len(r.d) \in 1..2 /\ AllDigits(r.d)
        /\ Number(r.d) \in 1..DaysIn(Number(r.y), Number(r.m))}

TwoDigits(n) == CharAt(Digits, (n \div 10) + 1) \o CharAt(Digits, (n % 10) + 1)

\* strptime(text, "%Y-%m-%d").date(), the date written as date.isoformat() does
strptime_date(text) ==
    IF DateReadings(text) = {} THEN Raises(Unhandled("ValueError"))
    ELSE LET r == CHOOSE r \in DateReadings(text) : TRUE
         IN  Returns(r.y \o "-" \o TwoDigits(Number(r.m)) \o "-" \o TwoDigits(Number(r.d)))

\* datetime.strptime(x, "%Y-%m-%d").date() if x else None
parse_optional_date(text) ==
    IF Truthy(text) THEN strptime_date(text) ELSE Returns(None)

(***************************************************************************)
(* What clients send.                                                      *)
(***************************************************************************)
Workers == {"w1", "w2"}

Emails == {"ann@x.org", "bob@x.org"}

\* "a" and "b"
Passwords == {<< <<97>> >>, << <<98>> >>}

SignupForms ==
    {[email |-> e, password |-> pw, date_of_birth |-> d, graduation_date |-> None,
      graduation_institution |-> g] :
        e \in Emails, pw \in {<< <<97>> >>}, d \in {None, "2000-02-29", "29/02/2000"},
        g \in {"Computer Science"}}

JobFilters ==
    {[title |-> None, location |-> None, category |-> None],
     [title |-> None, location |-> None, category |-> "Any"],
     [title |-> "developer", location |-> None, category |-> None],
     [title |-> "developer", location |-> None, category |-> "Any"],
     [title |-> "Pilot", location |-> None, category |-> "Any"],
     [title |-> "Engineer", location |-> "TX", category |-> "Other"],
     [title |-> "Pilot", location |-> None, category |-> None],
     [title |-> None, location |-> None, category |-> "it"]}

JobForms ==
    {[title |-> "Pilot", company |-> "Air Co", location |-> "Remote", category |-> "Other"]}

JobIds == {1, 2, 1000}

\* tokens nobody issued: not a JWT at all, a JWT signed with another key, and a
\* JWT that carries no subject
Garbage == [fmt |-> "garbage", sig |-> None, sub |-> None, exp |-> 0]
Forged(t) == [fmt |-> "jwt", sig |-> "bad", sub |-> "ann@x.org",
              exp |-> WholeSeconds(t + TokenLifetimeTicks)]
NoSubject(t) == [fmt |-> "jwt", sig |-> "good", sub |-> None,
                 exp |-> WholeSeconds(t + TokenLifetimeTicks)]

Credentials == {NoCredentials, Garbage, Forged(0), NoSubject(0)} \cup {i.token : i \in issued}

(***************************************************************************)
(* Queries.  A query result is the sequence of the ids of its rows, in     *)
(* primary-key order.                                                      *)
(***************************************************************************)
Ids(table) == [i \in 1..Len(table) |-> i]

\* OFFSET n: the rows after the first n
Offset(rows, n) == SubSeq(rows, n + 1, Len(rows))

Limit(rows, n) == SubSeq(rows, 1, IF Len(rows) < n THEN Len(rows) ELSE n)

\* a lookup that compares the wrong column
users_by_institution(email) ==
    SelectSeq([i \in 1..Len(users) |-> i], LAMBDA i : users[i].graduation_institution = email)

\* db.query(User).filter(User.email == email)
users_by_email(email) == SelectSeq(Ids(users), LAMBDA i : users[i].email = email)

\* a lookup without the filter on the id
jobs_unfiltered(job_id) == Ids(jobs)

\* db.query(Job).filter(Job.id == job_id)
jobs_by_id(job_id) == SelectSeq(Ids(jobs), LAMBDA i : i = job_id)

\* the check "already applied" with the filter on the user left out
applications_of_job(user_id, job_id) ==
    SelectSeq([i \in 1..Len(applications) |-> i],
              LAMBDA i : applications[i].job_id = job_id)

\* db.query(JobApplication).filter(user_id == ..., job_id == ...)
applications_of(user_id, job_id) ==
    SelectSeq(Ids(applications),
              LAMBDA i : applications[i].user_id = user_id /\ applications[i].job_id = job_id)

\* a listing without the filter on the user
applications_of_anyone(user_id) == Ids(applications)

\* db.query(JobApplication).filter(JobApplication.user_id == user_id)
applications_by_user(user_id) ==
    SelectSeq(Ids(applications), LAMBDA i : applications[i].user_id = user_id)

\* the query with "Any" taken for the name of a category
query_jobs_of_category(title, location, category) ==
    SelectSeq(Ids(jobs),
              LAMBDA i : /\ Truthy(title) => contains(jobs[i].title, title)
                         /\ Truthy(location) => contains(jobs[i].location, location)
                         /\ Truthy(category) => jobs[i].category = category)

\* the filtered query of get_jobs
query_jobs(title, location, category) ==
    SelectSeq(Ids(jobs),
              LAMBDA i : /\ Truthy(title) => contains(jobs[i].title, title)
                         /\ Truthy(location) => contains(jobs[i].location, location)
                         /\ (Truthy(category) /\ category # "Any")
                                => jobs[i].category = category)

\* column email declared without unique=True
violates_nothing(rows, row) == FALSE

\* Column(String, unique=True) of User.email: the insert of a row is refused
violates_unique_email(rows, row) == \E i \in 1..Len(rows) : rows[i].email = row.email

\* a unique constraint over (user_id, job_id)
violates_unique_pair(rows, row) ==
    \E i \in 1..Len(rows) : rows[i].user_id = row.user_id /\ rows[i].job_id = row.job_id

\* JobApplication declares no constraint over (user_id, job_id): no insert is refused
violates_application_constraint(rows, row) == FALSE

\* get_current_user: the id of the user the credentials name
get_current_user(credentials, t) ==
    LET email == get_current_user_email(credentials, t)
        found == users_by_email(email.value)
    IN  IF ~email.ok THEN Raises(email.error)
        ELSE IF found = <<>> THEN Raises(HTTPException(404, "User not found"))
        ELSE Returns(found[1])

(***************************************************************************)
(* Requests.                                                               *)
(***************************************************************************)
Idle == [n |-> 0, op |-> "none", pc |-> "done", args |-> <<>>, loc |-> <<>>,
         resp |-> Response(0, "", None)]

\* worker p can take a request; serial: only when no other request is running
Free(p, serial) ==
    /\ req[p].pc = "done"
    /\ started < MaxRequests
    /\ serial => \A q \in Workers : req[q].pc = "done"

Running(p, op, pc) == req[p].op = op /\ req[p].pc = pc

\* the number of the request worker p is serving in this step
Serving(p) == IF req[p].pc = "done" THEN started + 1 ELSE req[p].n

Goto(p, op, args, pc, loc) ==
    req' = [req EXCEPT ![p] = [n |-> Serving(p), op |-> op, pc |-> pc, args |-> args,
                               loc |-> loc, resp |-> Response(0, "", None)]]

Finish(p, op, args, loc, resp) ==
    req' = [req EXCEPT ![p] = [n |-> Serving(p), op |-> op, pc |-> "done", args |-> args,
                               loc |-> loc, resp |-> resp]]

Issue(token) == issued' = issued \cup {[token |-> token, at |-> now]}

(***************************************************************************)
(* POST /auth/signup                                                       *)
(***************************************************************************)
\* the existence check, the password hash and the dates
signup_check(p, serial, forms) ==
    \E form \in forms, salt \in Salts :
        LET db_user == users_by_email(form.email)
            hashed_password == get_password_hash(form.password, salt)
            dob == parse_optional_date(form.date_of_birth)
            grad_date == parse_optional_date(form.graduation_date)
            row == [email |-> form.email, hashed_password |-> hashed_password,
                    date_of_birth |-> dob.value, graduation_date |-> grad_date.value,
                    graduation_institution |-> form.graduation_institution]
        IN  /\ Free(p, serial)
            /\ started' = started + 1
            /\ IF db_user # <<>>
                 THEN Finish(p, "signup", form, <<>>,
                             HTTPException(400, "Email already registered"))
               ELSE IF ~dob.ok THEN Finish(p, "signup", form, <<>>, dob.error)
               ELSE IF ~grad_date.ok THEN Finish(p, "signup", form, <<>>, grad_date.error)
               ELSE Goto(p, "signup", form, "commit", row)
            /\ UNCHANGED <<users, jobs, applications, outbox, now, issued, probe>>

\* db.add(db_user); db.commit(); db.refresh(db_user); the token and the answer
signup_commit(p) ==
    LET row == req[p].loc
        access_token == create_access_token([sub |-> row.email], now)
    IN  /\ Running(p, "signup", "commit")
        /\ IF violates_unique_email(users, row)
             THEN /\ Finish(p, "signup", req[p].args, row, Unhandled("IntegrityError"))
                  /\ UNCHANGED <<users, issued>>
             ELSE /\ users' = Append(users, row)
                  /\ Issue(access_token)
                  /\ Finish(p, "signup", req[p].args, row,
                            Response(200, "", [access_token |-> access_token,
                                               id |-> Len(users) + 1,
                                               email |-> row.email]))
        /\ UNCHANGED <<jobs, applications, outbox, now, started, probe>>

(***************************************************************************)
(* POST /auth/login                                                        *)
(***************************************************************************)
\* a failure that tells the absent user from the wrong password
user_not_found_or_invalid(user) ==
    IF user = <<>> THEN HTTPException(404, "User not found")
    ELSE HTTPException(400, "Invalid credentials")

\* raise HTTPException(status_code=400, detail="Invalid credentials"), whether
\* the query found no user or the password did not verify
invalid_credentials(user) == HTTPException(400, "Invalid credentials")

login(p, serial, emails, passwords) ==
    \E email \in emails, password \in passwords :
        LET args == [email |-> email, password |-> password]
            user == users_by_email(email)
            access_token == create_access_token([sub |-> users[user[1]].email], now)
        IN  /\ Free(p, serial)
            /\ started' = started + 1
            /\ IF user = <<>> \/ ~verify_password(password, users[user[1]].hashed_password)
                 THEN /\ Finish(p, "login", args, <<>>, invalid_credentials(user))
                      /\ UNCHANGED issued
                 ELSE /\ Issue(access_token)
                      /\ Finish(p, "login", args, <<>>,
                                Response(200, "", [access_token |-> access_token,
                                                   id |-> user[1],
                                                   email |-> users[user[1]].email]))
            /\ UNCHANGED <<users, jobs, applications, outbox, now, probe>>

(***************************************************************************)
(* GET /jobs/                                                              *)
(***************************************************************************)
\* the filtered query; loc.catalog notes the size of the catalog it ran on
get_jobs_query(p, serial) ==
    \E args \in JobFilters :
        LET found == query_jobs(args.title, args.location, args.category)
            loc == [found |-> found, catalog |-> Len(jobs)]
        IN  /\ Free(p, serial)
            /\ started' = started + 1
            /\ IF found = <<>>
                 THEN Goto(p, "get_jobs", args, "seed", loc)
                 ELSE Finish(p, "get_jobs", args, loc, Response(200, "", found))
            /\ UNCHANGED <<users, jobs, applications, outbox, now, issued, probe>>

\* if not jobs: db.add_all(sample_jobs); db.commit()
get_jobs_seed(p) ==
    /\ Running(p, "get_jobs", "seed")
    /\ jobs' = jobs \o sample_jobs
    /\ Goto(p, "get_jobs", req[p].args, "requery", req[p].loc)
    /\ UNCHANGED <<users, applications, outbox, now, issued, started, probe>>

\* jobs = db.query(Job).all(); return jobs
get_jobs_requery(p) ==
    /\ Running(p, "get_jobs", "requery")
    /\ Finish(p, "get_jobs", req[p].args, req[p].loc, Response(200, "", Ids(jobs)))
    /\ UNCHANGED <<users, jobs, applications, outbox, now, issued, started, probe>>

(***************************************************************************)
(* POST /jobs/                                                             *)
(***************************************************************************)
create_job(p, serial) ==
    \E job \in JobForms :
        /\ Free(p, serial)
        /\ started' = started + 1
        /\ jobs' = Append(jobs, job)
        /\ Finish(p, "create_job", job, <<>>, Response(200, "", Len(jobs) + 1))
        /\ UNCHANGED <<users, applications, outbox, now, issued, probe>>

(***************************************************************************)
(* GET /jobs/recommended                                                   *)
(***************************************************************************)
\* the dict major_keywords, in the order of its items
major_keywords ==
<<
    [major |-> "computer science",
     keywords |-> <<"developer", "software", "programmer", "engineer", "it", "tech", "data", "web">>],
    [major |-> "information technology",
     keywords |-> <<"it", "developer", "software", "tech", "system", "network">>],
    [major |-> "software engineering",
     keywords |-> <<"software", "developer", "engineer", "programmer", "tech">>],
    [major |-> "computer engineering",
     keywords |-> <<"engineer", "software", "hardware", "developer", "tech">>],
    [major |-> "data science",
     keywords |-> <<"data", "analyst", "scientist", "analytics", "bi", "machine learning">>],
    [major |-> "artificial intelligence",
     keywords |-> <<"ai", "machine learning", "data", "scientist", "ml">>],
    [major |-> "cybersecurity",
     keywords |-> <<"security", "cybersecurity", "analyst", "engineer">>],
    [major |-> "business administration",
     keywords |-> <<"manager", "business", "admin", "operations", "consultant">>],
    [major |-> "management",
     keywords |-> <<"manager", "director", "operations", "project", "business">>],
    [major |-> "marketing",
     keywords |-> <<"marketing", "digital", "social media", "brand", "content">>],
    [major |-> "finance",
     keywords |-> <<"financial", "analyst", "accountant", "finance", "banking">>],
    [major |-> "accounting",
     keywords |-> <<"accountant", "finance", "auditor", "tax">>],
    [major |-> "economics",
     keywords |-> <<"economist", "analyst", "financial", "research">>],
    [major |-> "mechanical engineering",
     keywords |-> <<"mechanical", "engineer", "manufacturing", "design">>],
    [major |-> "electrical engineering",
     keywords |-> <<"electrical", "engineer", "electronics", "power">>],
    [major |-> "civil engineering",
     keywords |-> <<"civil", "engineer", "construction", "infrastructure">>],
    [major |-> "chemical engineering",
     keywords |-> <<"chemical", "engineer", "process", "manufacturing">>],
    [major |-> "nursing",
     keywords |-> <<"nurse", "healthcare", "medical", "clinical">>],
    [major |-> "medicine",
     keywords |-> <<"doctor", "physician", "medical", "clinical", "healthcare">>],
    [major |-> "pharmacy",
     keywords |-> <<"pharmacist", "pharmaceutical", "clinical">>]
>>

\* str.lower()
RECURSIVE LowerStr(_)
LowerStr(s) == IF Len(s) = 0 THEN "" ELSE Lower(CharAt(s, 1)) \o LowerStr(SubSeq(s, 2, Len(s)))

\* Python's "sub in s"
IsSubstring(sub, s) ==
    \E i \in 1..(Len(s) - Len(sub) + 1) : SubSeq(s, i, i + Len(sub) - 1) = sub

\* Column.ilike(pattern): lower(column) LIKE lower(pattern)
ilike(column, pattern) == Like(LowerStr(column), LowerStr(pattern))

\* the loop over major_keywords.items(): the keywords of the first major found
\* in user_major, [] if there is none
RECURSIVE keywords_from(_, _)
keywords_from(user_major, k) ==
    IF k > Len(major_keywords) THEN <<>>
    ELSE IF IsSubstring(major_keywords[k].major, user_major)
         THEN major_keywords[k].keywords
         ELSE keywords_from(user_major, k + 1)

\* the keywords of the last major found in user_major
keywords_of_last_match(user_major) ==
    LET found == {k \in 1..Len(major_keywords) : IsSubstring(major_keywords[k].major, user_major)}
    IN  IF found = {} THEN <<>>
        ELSE major_keywords[CHOOSE k \in found : \A j \in found : j <= k].keywords

keywords_of(user_major) == keywords_from(user_major, 1)

\* or_(Job.title.ilike('%kw%'), Job.category.ilike('%kw%'), ... for kw in keywords)
matches_keywords(job, keywords) ==
    \E k \in 1..Len(keywords) :
        \/ ilike(job.title, "%" \o keywords[k] \o "%")
        \/ ilike(job.category, "%" \o keywords[k] \o "%")

\* every row table "jobs" can hold: a seed posting or a posting of POST /jobs/
JobRows == {sample_jobs[i] : i \in 1..Len(sample_jobs)} \cup JobForms

\* matches_keywords, evaluated once for each keyword list and row
KeywordFilter ==
    [keywords \in {major_keywords[k].keywords : k \in 1..Len(major_keywords)},
     job \in JobRows |-> matches_keywords(job, keywords)]

\* a filter on the titles alone
query_by_title(keywords) ==
    SelectSeq(Ids(jobs), LAMBDA i :
        \E k \in 1..Len(keywords) : ilike(jobs[i].title, "%" \o keywords[k] \o "%"))

\* db.query(Job).filter(or_(*filters))
query_by_keywords(keywords) ==
    SelectSeq(Ids(jobs), LAMBDA i : KeywordFilter[keywords, jobs[i]])

\* the dependencies and the first query
get_recommended_jobs(p, serial) ==
    \E credentials \in Credentials :
        LET current_user == get_current_user(credentials, now)
            institution == users[current_user.value].graduation_institution
            user_major == IF Truthy(institution) THEN LowerStr(institution) ELSE ""
            keywords == keywords_of(user_major)
            found == query_by_keywords(keywords)
        IN  /\ Free(p, serial)
            /\ started' = started + 1
            /\ IF ~current_user.ok
                 THEN Finish(p, "get_recommended_jobs", [credentials |-> credentials], <<>>, current_user.error)
               ELSE IF keywords = <<>>
                 THEN Finish(p, "get_recommended_jobs", [credentials |-> credentials], keywords,
                             Response(200, "", Limit(Ids(jobs), 10)))
               ELSE IF Limit(found, 20) = <<>>
                 THEN Goto(p, "get_recommended_jobs", [credentials |-> credentials], "general", keywords)
               ELSE Finish(p, "get_recommended_jobs", [credentials |-> credentials], keywords,
                           Response(200, "", Limit(found, 20)))
            /\ UNCHANGED <<users, jobs, applications, outbox, now, issued, probe>>

\* no second query: the empty result is the answer
get_recommended_jobs_nothing(p) ==
    /\ Running(p, "get_recommended_jobs", "general")
    /\ Finish(p, "get_recommended_jobs", req[p].args, req[p].loc, Response(200, "", <<>>))
    /\ UNCHANGED <<users, jobs, applications, outbox, now, issued, started, probe>>

\* if not jobs: jobs = db.query(Job).limit(10).all()
get_recommended_jobs_general(p) ==
    /\ Running(p, "get_recommended_jobs", "general")
    /\ Finish(p, "get_recommended_jobs", req[p].args, req[p].loc,
              Response(200, "", Limit(Ids(jobs), 10)))
    /\ UNCHANGED <<users, jobs, applications, outbox, now, issued, started, probe>>

(***************************************************************************)
(* POST /applications/                                                     *)
(***************************************************************************)
\* the locals of create_application before its dependencies have run
NoApplication == [user_id |-> 0, job |-> 0, application_id |-> 0]

\* the dependencies and the check "already applied"
create_application_check(p, serial) ==
    \E credentials \in Credentials, job_id \in JobIds :
        LET args == [credentials |-> credentials, job_id |-> job_id]
            current_user == get_current_user(credentials, now)
            existing == applications_of(current_user.value, job_id)
        IN  /\ Free(p, serial)
            /\ started' = started + 1
            /\ IF ~current_user.ok
                 THEN Finish(p, "create_application", args, NoApplication, current_user.error)
               ELSE IF existing # <<>>
                 THEN Finish(p, "create_application", args, NoApplication,
                             HTTPException(400, "Already applied"))
               ELSE Goto(p, "create_application", args, "job",
                         [NoApplication EXCEPT !.user_id = current_user.value])
            /\ UNCHANGED <<users, jobs, applications, outbox, now, issued, probe>>

\* job = db.query(Job).filter(Job.id == application.job_id).first()
create_application_job(p) ==
    LET job == jobs_by_id(req[p].args.job_id)
    IN  /\ Running(p, "create_application", "job")
        /\ IF job = <<>>
             THEN Finish(p, "create_application", req[p].args, req[p].loc,
                         HTTPException(404, "Job not found"))
             ELSE Goto(p, "create_application", req[p].args, "insert",
                       [req[p].loc EXCEPT !.job = job[1]])
        /\ UNCHANGED <<users, jobs, applications, outbox, now, issued, started, probe>>

\* db.add(db_application); db.commit()
create_application_insert(p) ==
    LET row == [user_id |-> req[p].loc.user_id, job_id |-> req[p].args.job_id,
                status |-> "pending"]
    IN  /\ Running(p, "create_application", "insert")
        /\ IF violates_application_constraint(applications, row)
             THEN /\ Finish(p, "create_application", req[p].args, req[p].loc,
                            Unhandled("IntegrityError"))
                  /\ UNCHANGED applications
             ELSE /\ applications' = Append(applications, row)
                  /\ Goto(p, "create_application", req[p].args, "notify",
                          [req[p].loc EXCEPT !.application_id = Len(applications) + 1])
        /\ UNCHANGED <<users, jobs, outbox, now, issued, started, probe>>

\* a notifier called twice for one submit
create_application_notify_twice(p) ==
    LET user == users[req[p].loc.user_id]
        job == jobs[req[p].loc.job]
        message == [to_email |-> user.email, job_title |-> job.title, company |-> job.company]
    IN  /\ Running(p, "create_application", "notify")
        /\ outbox' = outbox \o <<message, message>>
        /\ Finish(p, "create_application", req[p].args, req[p].loc,
                  Response(200, "Application submitted successfully",
                           req[p].loc.application_id))
        /\ UNCHANGED <<users, jobs, applications, now, issued, started, probe>>

\* EmailService.send_application_confirmation: its prints reach the console,
\* or one of them raises (the console cannot encode the text, or is closed)
NotifierOutcomes == {"sent", "raised"}

\* EmailService.send_application_confirmation(...) and the answer; no except
\* clause stands between the notifier and the caller
create_application_notify(p) ==
    LET user == users[req[p].loc.user_id]
        job == jobs[req[p].loc.job]
    IN  /\ Running(p, "create_application", "notify")
        /\ \E outcome \in NotifierOutcomes :
              IF outcome = "raised"
                THEN /\ Finish(p, "create_application", req[p].args, req[p].loc,
                               Unhandled("UnicodeEncodeError"))
                     /\ UNCHANGED outbox
                ELSE /\ outbox' = Append(outbox, [to_email |-> user.email,
                                                  job_title |-> job.title,
                                                  company |-> job.company])
                     /\ Finish(p, "create_application", req[p].args, req[p].loc,
                               Response(200, "Application submitted successfully",
                                        req[p].loc.application_id))
        /\ UNCHANGED <<users, jobs, applications, now, issued, started, probe>>

(***************************************************************************)
(* GET /applications/                                                      *)
(***************************************************************************)
\* one summary per application of the caller whose job is found
RECURSIVE summaries(_)
summaries(apps) ==
    IF apps = <<>> THEN <<>>
    ELSE LET app == applications[Head(apps)]
             job == jobs_by_id(app.job_id)
         IN  (IF job # <<>>
                THEN <<[id |-> Head(apps), job_title |-> jobs[job[1]].title,
                        company |-> jobs[job[1]].company, status |-> app.status]>>
                ELSE <<>>) \o summaries(Tail(apps))

get_applications(p, serial) ==
    \E credentials \in Credentials :
        LET current_user == get_current_user(credentials, now)
        IN  /\ Free(p, serial)
            /\ started' = started + 1
            /\ IF ~current_user.ok
                 THEN Finish(p, "get_applications", [credentials |-> credentials], <<>>, current_user.error)
                 ELSE Finish(p, "get_applications", [credentials |-> credentials], <<>>,
                             Response(200, "", summaries(applications_by_user(current_user.value))))
            /\ UNCHANGED <<users, jobs, applications, outbox, now, issued, probe>>

(***************************************************************************)
(* The clock, and direct calls of the token functions.                     *)
(***************************************************************************)
MaxNow == TokenLifetimeTicks + SlackTicks

\* the instants the clock is looked at: the first ticks, and the ticks around
\* the end of the lifetime of a token issued then
ClockValues == (0..SlackTicks) \cup ((TokenLifetimeTicks - SlackTicks)..MaxNow)

\* d ticks pass
Wait(d) ==
    /\ now + d \in ClockValues
    /\ now' = now + d
    /\ UNCHANGED <<users, jobs, applications, outbox, issued, req, started, probe>>

\* create_access_token(data={"sub": subject})
issue_token ==
    \E subject \in Emails :
        /\ started < MaxRequests
        /\ started' = started + 1
        /\ Issue(create_access_token([sub |-> subject], now))
        /\ UNCHANGED <<users, jobs, applications, outbox, now, req, probe>>

\* get_current_user_email(credentials)
validate_token ==
    \E credentials \in Credentials \cup {Forged(now), NoSubject(now)} :
        /\ started < MaxRequests
        /\ started' = started + 1
        /\ probe' = [credentials |-> credentials, at |-> now,
                     result |-> get_current_user_email(credentials, now)]
        /\ UNCHANGED <<users, jobs, applications, outbox, now, issued, req>>

(***************************************************************************)
(* Specifications.                                                         *)
(***************************************************************************)
NoProbe == [credentials |-> NoCredentials, at |-> 0,
            result |-> Raises(Response(0, "", None))]

\* the service starts on an empty database
Init ==
    /\ users = <<>>
    /\ jobs = <<>>
    /\ applications = <<>>
    /\ outbox = <<>>
    /\ now = 0
    /\ issued = {}
    /\ req = [p \in Workers |-> Idle]
    /\ started = 0
    /\ probe = NoProbe

Handlers(p, serial) ==
    \/ signup_check(p, serial, SignupForms)
    \/ signup_commit(p)
    \/ login(p, serial, Emails, Passwords)
    \/ get_jobs_query(p, serial)
    \/ get_jobs_seed(p)
    \/ get_jobs_requery(p)
    \/ create_job(p, serial)
    \/ get_recommended_jobs(p, serial)
    \/ get_recommended_jobs_general(p)
    \/ create_application_check(p, serial)
    \/ create_application_job(p)
    \/ create_application_insert(p)
    \/ create_application_notify(p)
    \/ get_applications(p, serial)

\* requests served by the workers in parallel
Next ==
    \/ \E p \in Workers : Handlers(p, FALSE)
    \/ Wait(TokenLifetimeTicks)

Spec == Init /\ [][Next]_vars

\* requests served one at a time
NextSerial ==
    \/ \E p \in Workers : Handlers(p, TRUE)
    \/ Wait(TokenLifetimeTicks)

SpecSerial == Init /\ [][NextSerial]_vars

(***************************************************************************)
(* The components on their own.  Each specification runs the handlers of   *)
(* one component from a state the whole service reaches.                   *)
(***************************************************************************)
\* the row signup stores for a form that passes its checks
StoredUser(email, institution) ==
    [email |-> email, hashed_password |-> get_password_hash(<< <<97>> >>, "s1"),
     date_of_birth |-> None, graduation_date |-> None,
     graduation_institution |-> institution]

\* after two signups at time 0, before or after the first GET /jobs/
InitPopulated ==
    /\ users = <<StoredUser("ann@x.org", "Computer Science"),
                 StoredUser("bob@x.org", "Computer Science")>>
    /\ jobs \in {<<>>, sample_jobs}
    /\ applications = <<>>
    /\ outbox = <<>>
    /\ now = 0
    /\ issued = {[token |-> create_access_token([sub |-> e], 0), at |-> 0] : e \in Emails}
    /\ req = [p \in Workers |-> Idle]
    /\ started = 0
    /\ probe = NoProbe

\* Credential Store
AccountHandlers(p, serial) ==
    \/ signup_check(p, serial, SignupForms)
    \/ signup_commit(p)
    \/ login(p, serial, Emails, Passwords)

NextAccounts == \E p \in Workers : AccountHandlers(p, FALSE)
SpecAccounts == Init /\ [][NextAccounts]_vars

NextAccountsSerial == \E p \in Workers : AccountHandlers(p, TRUE)
SpecAccountsSerial == Init /\ [][NextAccountsSerial]_vars

\* Job Catalog
CatalogHandlers(p, serial) ==
    \/ get_jobs_query(p, serial)
    \/ get_jobs_seed(p)
    \/ get_jobs_requery(p)
    \/ create_job(p, serial)

NextCatalog == \E p \in Workers : CatalogHandlers(p, FALSE)
SpecCatalog == Init /\ [][NextCatalog]_vars

NextCatalogSerial == \E p \in Workers : CatalogHandlers(p, TRUE)
SpecCatalogSerial == Init /\ [][NextCatalogSerial]_vars

\* the protected operations: Recommendation Matcher and Application Ledger
ProtectedHandlers(p, serial) ==
    \/ get_recommended_jobs(p, serial)
    \/ get_recommended_jobs_general(p)
    \/ create_application_check(p, serial)
    \/ create_application_job(p)
    \/ create_application_insert(p)
    \/ create_application_notify(p)
    \/ get_applications(p, serial)

NextProtected ==
    \/ \E p \in Workers : ProtectedHandlers(p, FALSE)
    \/ Wait(TokenLifetimeTicks)
SpecProtected == InitPopulated /\ [][NextProtected]_vars

NextProtectedSerial ==
    \/ \E p \in Workers : ProtectedHandlers(p, TRUE)
    \/ Wait(TokenLifetimeTicks)
SpecProtectedSerial == InitPopulated /\ [][NextProtectedSerial]_vars

\* Token Issuer/Validator
NextToken ==
    \/ issue_token
    \/ validate_token
    \/ Wait(1)
    \/ Wait(TokenLifetimeTicks - SlackTicks)
SpecToken == Init /\ [][NextToken]_vars

\* Password verification: passwords as long as bcrypt's limit.  A password is
\* a run of "a" ending up to two bytes short of the limit, and at most one more
\* character, of two or three bytes.
TailCharacters == {<<195, 169>>, <<196, 130>>, <<226, 130, 172>>}

Tails == {<<>>} \cup {<<c>> : c \in TailCharacters}

LongPasswords ==
    {[i \in 1..n |-> <<97>>] \o tail :
        n \in (MaxPasswordBytes - 2)..MaxPasswordBytes, tail \in Tails}

LongForms ==
    {[email |-> "ann@x.org", password |-> pw, date_of_birth |-> None,
      graduation_date |-> None, graduation_institution |-> "Computer Science"] :
        pw \in LongPasswords}

NextPassword ==
    \E p \in Workers :
        \/ signup_check(p, TRUE, LongForms)
        \/ signup_commit(p)
        \/ login(p, TRUE, {"ann@x.org"}, LongPasswords)
SpecPassword == Init /\ [][NextPassword]_vars

\* Login against a store that holds one user: after the signup of ann@x.org
\* with password "a" at time 0
InitRegistered ==
    /\ users = <<StoredUser("ann@x.org", "Computer Science")>>
    /\ jobs = <<>>
    /\ applications = <<>>
    /\ outbox = <<>>
    /\ now = 0
    /\ issued = {[token |-> create_access_token([sub |-> "ann@x.org"], 0), at |-> 0]}
    /\ req = [p \in Workers |-> Idle]
    /\ started = 0
    /\ probe = NoProbe

SpecLogin == InitRegistered /\ [][NextAccounts]_vars

\* Recommendation Matcher: users of several fields of study, on an empty
\* catalog, on a catalog of one posting, and on the seeded catalog
Institutions ==
    {None, "", "History", "Computer Science", "Nursing School",
     "Computer Science and Data Science", "Data Science & Computer Science",
     "Marketing Management", "BSc Pharmacy"}

InitMatcher ==
    /\ \E g \in Institutions, h \in {"Computer Science", "History"} :
          users = <<StoredUser("ann@x.org", g), StoredUser("bob@x.org", h)>>
    /\ \E form \in JobForms : jobs \in {<<>>, <<form>>, sample_jobs}
    /\ applications = <<>>
    /\ outbox = <<>>
    /\ now = 0
    /\ issued = {[token |-> create_access_token([sub |-> e], 0), at |-> 0] : e \in Emails}
    /\ req = [p \in Workers |-> Idle]
    /\ started = 0
    /\ probe = NoProbe

NextMatcher ==
    \E p \in Workers :
        \/ get_recommended_jobs(p, FALSE)
        \/ get_recommended_jobs_general(p)
        \/ create_job(p, FALSE)
SpecMatcher == InitMatcher /\ [][NextMatcher]_vars

\* Application Ledger: the seeded catalog and applications of earlier
\* submits, two of them by one user for one job after a race
StoredApplication(user_id, job_id) ==
    [user_id |-> user_id, job_id |-> job_id, status |-> "pending"]

InitLedger ==
    /\ users = <<StoredUser("ann@x.org", "Computer Science"),
                 StoredUser("bob@x.org", "Computer Science")>>
    /\ jobs = sample_jobs
    /\ applications \in
          {<<>>,
           <<StoredApplication(1, 1), StoredApplication(2, 1), StoredApplication(1, 2)>>,
           <<StoredApplication(2, 2), StoredApplication(1, 2), StoredApplication(1, 2)>>}
    /\ outbox = <<>>
    /\ now = 0
    /\ issued = {[token |-> create_access_token([sub |-> e], 0), at |-> 0] : e \in Emails}
    /\ req = [p \in Workers |-> Idle]
    /\ started = 0
    /\ probe = NoProbe

NextLedger ==
    \E p \in Workers :
        \/ create_application_check(p, FALSE)
        \/ create_application_job(p)
        \/ create_application_insert(p)
        \/ create_application_notify(p)
        \/ get_applications(p, FALSE)
SpecLedger == InitLedger /\ [][NextLedger]_vars

(***************************************************************************)
(* Properties.                                                             *)
(***************************************************************************)
\* worker p takes a new request in this step
Starts(p) == started' = started + 1 /\ req'[p].n = started + 1

\* worker p answers its request in this step
Finishes(p) == req'[p].pc = "done" /\ (req[p].pc # "done" \/ req'[p].n # req[p].n)

\* the number of rows of apps for user u and job j
PairCount(apps, u, j) ==
    Cardinality({i \in 1..Len(apps) : apps[i].user_id = u /\ apps[i].job_id = j})

AtMostOnePerPair(apps) ==
    \A i, k \in 1..Len(apps) :
        (apps[i].user_id = apps[k].user_id /\ apps[i].job_id = apps[k].job_id) => i = k

\* a submit of worker p, started in this step by a caller who authenticates, for
\* a job of the catalog: refused without effect if the caller has applied for
\* the job, and carried on otherwise
C1_Check(p) ==
    LET args == req'[p].args
        caller == get_current_user(args.credentials, now)
    IN  ( /\ Starts(p)
          /\ req'[p].op = "create_application"
          /\ caller.ok
          /\ args.job_id \in 1..Len(jobs) )
        => IF PairCount(applications, caller.value, args.job_id) > 0
             THEN /\ req'[p].pc = "done"
                  /\ req'[p].resp.status = 400
                  /\ req'[p].resp.detail = "Already applied"
                  /\ applications' = applications
             ELSE req'[p].pc # "done"

\* a submit that was carried on succeeds: it is not refused, and it ends with
\* its application committed, the one record of its pair
C1_Done(p) ==
    ( /\ req[p].op = "create_application"
      /\ req[p].pc # "done"
      /\ req'[p].pc = "done"
      /\ req[p].args.job_id \in 1..Len(jobs) )
    => /\ req'[p].resp.status \notin {400, 404}
       /\ req'[p].loc.application_id \in 1..Len(applications')
       /\ PairCount(applications', req[p].loc.user_id, req[p].args.job_id) = 1

\* C1: with requests served one at a time, the first submit of a user for a
\* job succeeds, every later one fails with "Already applied" and adds no
\* record, and no (user, job) pair ever has two applications.
C1_SerialSubmitOncePerPair ==
    [][/\ AtMostOnePerPair(applications')
       /\ \A p \in Workers : C1_Check(p) /\ C1_Done(p)]_vars

\* a second submit was refused and its pair has one application
C1_Witness ==
    \E p \in Workers :
        /\ req[p].op = "create_application"
        /\ req[p].pc = "done"
        /\ req[p].resp.detail = "Already applied"
        /\ \E u \in 1..Len(users) : PairCount(applications, u, req[p].args.job_id) = 1

\* the submit of worker p has found its job
FoundJob(p) == req[p].op = "create_application" /\ req[p].loc.job # 0

SamePair(p, q) ==
    /\ req[p].loc.user_id = req[q].loc.user_id
    /\ req[p].args.job_id = req[q].args.job_id

\* C2: two submits for one (user, job) pair that have both passed the check
\* "already applied" before either committed both succeed, and the table then
\* holds two applications for the pair: no insert is refused, and each
\* submit ends with an application of its own committed.
C2_RaceAdmitsTwo ==
    \A p, q \in Workers :
        (p # q /\ FoundJob(p) /\ FoundJob(q) /\ SamePair(p, q))
        => /\ req[p].pc = "done"
                => /\ req[p].resp.status \notin {400, 404}
                   /\ req[p].loc.application_id \in 1..Len(applications)
           /\ (req[p].pc = "done" /\ req[q].pc = "done")
                => /\ PairCount(applications, req[p].loc.user_id, req[p].args.job_id) >= 2
                   /\ req[p].loc.application_id # req[q].loc.application_id

\* both racing submits have answered with success
C2_Witness ==
    \E p, q \in Workers :
        /\ p # q /\ FoundJob(p) /\ FoundJob(q) /\ SamePair(p, q)
        /\ req[p].pc = "done" /\ req[q].pc = "done"
        /\ req[p].resp.status = 200 /\ req[q].resp.status = 200
        /\ PairCount(applications, req[p].loc.user_id, req[p].args.job_id) = 2

\* worker p takes a step of GET /jobs/
StepsGetJobs(p) ==
    /\ req'[p].op = "get_jobs"
    /\ req'[p].n # req[p].n \/ req'[p].pc # req[p].pc

\* C3: once the catalog holds a job, no step of GET /jobs/ adds a job to it,
\* whatever the filters of the request.
C3_NoSeedOnceNonEmpty ==
    [][\A p \in Workers : (StepsGetJobs(p) /\ jobs # <<>>) => jobs' = jobs]_vars

\* the jobs among the first n of the catalog that satisfy every filter given
Satisfying(args, n) ==
    SelectSeq([i \in 1..n |-> i],
              LAMBDA i : /\ Truthy(args.title) => contains(jobs[i].title, args.title)
                         /\ Truthy(args.location) => contains(jobs[i].location, args.location)
                         /\ (Truthy(args.category) /\ args.category # "Any")
                                => jobs[i].category = args.category)

\* C4: a GET /jobs/ that ran its query on a catalog that held jobs answers
\* with exactly the jobs of that catalog that satisfy every filter given
\* (with none, if none does).
C4_SearchReturnsExactlyMatches ==
    [][\A p \in Workers :
          (Finishes(p) /\ req'[p].op = "get_jobs" /\ req'[p].loc.catalog > 0)
          => req'[p].resp.body = Satisfying(req'[p].args, req'[p].loc.catalog)]_vars

\* the instant, in ticks, at which a token issued at instant at expires: its
\* time of issue cut to whole seconds, plus the lifetime
ExpiryOf(at) ==
    ((at \div TicksPerSecond) + ACCESS_TOKEN_EXPIRE_MINUTES * SecondsPerMinute) * TicksPerSecond

\* the answer "Token has expired"
SaysExpired(result) ==
    ~result.ok /\ result.error.status = 401 /\ result.error.detail = "Token has expired"

\* C5 as stated: a token issued at T validates (returning its subject) at
\* every t with T <= t < T + 30 min and fails with Expired at every t at or
\* after T + 30 min.
C5_ValidForThirtyMinutes ==
    \A i \in issued :
        (probe.credentials = i.token /\ probe.at >= i.at)
        => IF probe.at < i.at + TokenLifetimeTicks
             THEN probe.result.ok /\ probe.result.value = i.token.sub
             ELSE SaysExpired(probe.result)

\* C5 as amended: a token issued at T validates (returning its subject) at
\* every t with T <= t < E and fails with Expired at every t >= E, where E
\* is T cut to whole seconds plus 30 min; E does not move, so a token that
\* has failed as Expired never validates again.
C5_ValidUntilExpiryInWholeSeconds ==
    \A i \in issued :
        /\ get_current_user_email(i.token, now).ok <=> now < ExpiryOf(i.at)
        /\ (probe.credentials = i.token /\ probe.at >= i.at)
           => IF probe.at < ExpiryOf(i.at)
                THEN probe.result.ok /\ probe.result.value = i.token.sub
                ELSE SaysExpired(probe.result)

\* a token issued within a second was found expired less than 30 min later
C5_Witness ==
    \E i \in issued :
        /\ i.at % TicksPerSecond # 0
        /\ probe.credentials = i.token
        /\ probe.at >= ExpiryOf(i.at)
        /\ probe.at < i.at + TokenLifetimeTicks
        /\ SaysExpired(probe.result)

\* C6: a token that does not validate fails in one of two ways, both with
\* status 401: "Token has expired" if it is correctly signed and past its
\* expiry, and "Could not validate credentials" or "Invalid authentication
\* credentials" if its signature is bad, it is malformed or it has no subject.
C6_TwoFailureKinds ==
    (probe.credentials.fmt # "absent" /\ ~probe.result.ok)
    => IF /\ probe.credentials.fmt = "jwt"
          /\ probe.credentials.sig = "good"
          /\ probe.credentials.exp * TicksPerSecond <= probe.at
         THEN SaysExpired(probe.result)
         ELSE /\ probe.result.error.status = 401
              /\ probe.result.error.detail \in {"Could not validate credentials",
                                                "Invalid authentication credentials"}

\* credentials that are absent, invalid or expired at instant t
BadCredentials(c, t) ==
    \/ c.fmt # "jwt"
    \/ c.sig # "good"
    \/ c.sub = None
    \/ c.exp * TicksPerSecond <= t

ProtectedOps == {"get_recommended_jobs", "create_application", "get_applications"}

\* C7: a protected operation called with absent, invalid or expired
\* credentials is answered at once with an authentication failure (401 or
\* 403) that carries no data, and changes no table and sends no notification.
C7_AuthBeforeDomainLogic ==
    [][\A p \in Workers :
          ( /\ Starts(p)
            /\ req'[p].op \in ProtectedOps
            /\ BadCredentials(req'[p].args.credentials, now) )
          => /\ req'[p].pc = "done"
             /\ req'[p].resp.status \in {401, 403}
             /\ req'[p].resp.body = None
             /\ UNCHANGED <<users, jobs, applications, outbox>>]_vars

StoresEmail(rows, email) == \E i \in 1..Len(rows) : rows[i].email = email

\* a date field that is absent, empty or a date written YYYY-MM-DD
DateGiven(text) == ~Truthy(text) \/ DateReadings(text) # {}

\* the signup of worker p succeeds in this step: one user more, with the
\* email of the form, and a token for that email
SignupSucceeds(p) ==
    /\ req'[p].resp.status = 200
    /\ Len(users') = Len(users) + 1
    /\ SubSeq(users', 1, Len(users)) = users
    /\ users'[Len(users')].email = req'[p].args.email
    /\ req'[p].resp.body.access_token.sub = req'[p].args.email
    /\ req'[p].resp.body.access_token.sig = "good"

SignupRefused(p) ==
    /\ req'[p].resp.status = 400
    /\ req'[p].resp.detail = "Email already registered"
    /\ users' = users

\* C8 as stated: a signup is refused with "Email already registered", the
\* users unchanged, if its email is stored, and succeeds if it is not.
C8_SignupIffEmailNew ==
    [][\A p \in Workers :
          (Finishes(p) /\ req'[p].op = "signup")
          => IF StoresEmail(users, req'[p].args.email)
               THEN SignupRefused(p)
               ELSE SignupSucceeds(p)]_vars

\* C8 as amended: a signup is refused with "Email already registered", the
\* users unchanged, if its email is stored; if it is not, the signup succeeds
\* when both its dates are absent or valid, and fails without adding a user
\* when one of them is malformed.
C8_SignupIffEmailNewAndDatesValid ==
    [][\A p \in Workers :
          (Finishes(p) /\ req'[p].op = "signup")
          => IF StoresEmail(users, req'[p].args.email)
               THEN SignupRefused(p)
             ELSE IF /\ DateGiven(req'[p].args.date_of_birth)
                     /\ DateGiven(req'[p].args.graduation_date)
               THEN SignupSucceeds(p)
               ELSE req'[p].resp.status # 200 /\ users' = users]_vars

\* a signup with a stored email was refused
C8_Witness ==
    \E p \in Workers :
        /\ req[p].op = "signup"
        /\ req[p].pc = "done"
        /\ req[p].resp.detail = "Email already registered"
        /\ StoresEmail(users, req[p].args.email)

\* the signup of worker p passed the existence check and has answered
CommittedOrLost(p) ==
    /\ req[p].op = "signup"
    /\ req[p].pc = "done"
    /\ \/ req[p].resp.status = 200
       \/ req[p].resp.status = 500 /\ req[p].resp.body = "IntegrityError"

\* C9: no two users have the same email; of two signups for one email that
\* both passed the existence check, one succeeds and the other fails, and
\* one user has the email.
C9_EmailUniqueUnderRace ==
    /\ \A i, k \in 1..Len(users) : users[i].email = users[k].email => i = k
    /\ \A p, q \in Workers :
          (p # q /\ CommittedOrLost(p) /\ CommittedOrLost(q)
                 /\ req[p].args.email = req[q].args.email)
          => /\ req[p].resp.status # 200 \/ req[q].resp.status # 200
             /\ Cardinality({i \in 1..Len(users) : users[i].email = req[p].args.email}) = 1

\* two signups for one email raced: one was stored, the other was refused by
\* the unique index
C9_Witness ==
    \E p, q \in Workers :
        /\ p # q /\ CommittedOrLost(p) /\ CommittedOrLost(q)
        /\ req[p].args.email = req[q].args.email
        /\ req[p].resp.status = 200
        /\ req[q].resp.status = 500
        /\ Len(users) = 1

\* worker q has answered a login for the user that the signup of worker p,
\* still on record, registered
LoginAfterSignup(p, q) ==
    /\ req[p].op = "signup" /\ req[p].pc = "done" /\ req[p].resp.status = 200
    /\ req[q].op = "login" /\ req[q].pc = "done" /\ req[q].n > req[p].n
    /\ req[q].args.email = req[p].args.email

\* the first 72 bytes of the UTF-8 encoding of a password
FirstBytes(password) == Take(Flatten(password), MaxPasswordBytes)

\* the longest run of leading characters of a password whose UTF-8 encoding
\* fits in 72 bytes
WholeCharacters(password) ==
    LET fits(k) == Len(Flatten(SubSeq(password, 1, k))) <= MaxPasswordBytes
        k == CHOOSE k \in 0..Len(password) :
                fits(k) /\ \A m \in (k + 1)..Len(password) : ~fits(m)
    IN  SubSeq(password, 1, k)

\* C10 as stated: a login succeeds iff the first 72 bytes of the UTF-8
\* encoding of its password are those of the password given at registration.
C10_LoginIffFirst72BytesEqual ==
    \A p, q \in Workers :
        LoginAfterSignup(p, q)
        => (req[q].resp.status = 200
              <=> FirstBytes(req[q].args.password) = FirstBytes(req[p].args.password))

\* C10 as amended: a login succeeds iff its password and the password given
\* at registration have the same leading characters that fit, whole, in 72
\* bytes of UTF-8; a character that byte 72 falls inside is not compared.
C10_LoginIffWholeCharactersEqual ==
    \A p, q \in Workers :
        LoginAfterSignup(p, q)
        => (req[q].resp.status = 200
              <=> WholeCharacters(req[q].args.password)
                    = WholeCharacters(req[p].args.password))

\* a login was accepted with a password whose first 72 bytes are not those of
\* the registered password
C10_Witness ==
    \E p, q \in Workers :
        /\ LoginAfterSignup(p, q)
        /\ req[q].resp.status = 200
        /\ FirstBytes(req[q].args.password) # FirstBytes(req[p].args.password)

\* the email and password of a login are those of a stored user
KnownLogin(args) ==
    \E i \in 1..Len(users) :
        /\ users[i].email = args.email
        /\ verify_password(args.password, users[i].hashed_password)

\* the one answer of a login that fails
LoginFailure == Response(400, "Invalid credentials", None)

\* C11: a login whose email is not registered and a login whose password is
\* wrong get the same answer (status 400, "Invalid credentials", no data),
\* and neither issues a token or changes the users, jobs or applications.
C11_LoginFailsUniformly ==
    [][\A p \in Workers :
          (Finishes(p) /\ req'[p].op = "login" /\ ~KnownLogin(req'[p].args))
          => /\ req'[p].resp = LoginFailure
             /\ UNCHANGED <<users, jobs, applications, outbox, issued>>]_vars

\* one login failed for an email nobody registered, another for a registered
\* email with a wrong password, and their answers are equal
C11_Witness ==
    \E p, q \in Workers :
        /\ req[p].op = "login" /\ req[p].pc = "done"
        /\ req[q].op = "login" /\ req[q].pc = "done"
        /\ ~StoresEmail(users, req[p].args.email)
        /\ StoresEmail(users, req[q].args.email)
        /\ ~KnownLogin(req[q].args)
        /\ req[p].resp = req[q].resp
        /\ req[p].resp.status = 400

\* the table entries whose major name is a substring of text
MatchingEntries(text) ==
    {k \in 1..Len(major_keywords) : IsSubstring(major_keywords[k].major, text)}

\* for each field of study, the keywords of the earliest table entry whose
\* major name is a substring of it in lower case, none if there is no entry
EarliestMatch ==
    [g \in Institutions |->
        LET found == MatchingEntries(IF g = None THEN "" ELSE LowerStr(g))
        IN  IF found = {} THEN <<>>
            ELSE major_keywords[CHOOSE k \in found : \A j \in found : k <= j].keywords]

\* the field of study of the caller of a request
InstitutionOf(credentials) ==
    users[get_current_user(credentials, now).value].graduation_institution

\* worker p takes a recommendation request of a caller who authenticates
StartsRecommended(p) ==
    /\ Starts(p)
    /\ req'[p].op = "get_recommended_jobs"
    /\ get_current_user(req'[p].args.credentials, now).ok

\* C12: the active keyword set is the keyword set of the earliest table entry
\* whose major name is a substring of the lowercased field of study, whatever
\* later entries match too, and is empty if no entry matches.
C12_FirstMatchingMajorWins ==
    [][\A p \in Workers :
          StartsRecommended(p)
          => req'[p].loc = EarliestMatch[InstitutionOf(req'[p].args.credentials)]]_vars

\* a caller whose field of study names "data science" before "computer
\* science" was given the keywords of "computer science"
C12_Witness ==
    \E p \in Workers :
        /\ req[p].op = "get_recommended_jobs"
        /\ req[p].loc = major_keywords[1].keywords
        /\ \E i \in 1..Len(users) :
              /\ users[i].email = req[p].args.credentials.sub
              /\ users[i].graduation_institution = "Data Science & Computer Science"

\* some keyword is a substring, letter case apart, of the title or of the
\* category of the job: for each keyword set of the table and each posting
Relevant ==
    [keywords \in {major_keywords[k].keywords : k \in 1..Len(major_keywords)},
     job \in JobRows |->
        \E k \in 1..Len(keywords) :
            \/ IsSubstring(LowerStr(keywords[k]), LowerStr(job.title))
            \/ IsSubstring(LowerStr(keywords[k]), LowerStr(job.category))]

\* the jobs of the catalog that are relevant to a keyword set, in catalog order
RelevantJobs(keywords) ==
    IF keywords = <<>> THEN <<>>
    ELSE SelectSeq(Ids(jobs), LAMBDA i : Relevant[keywords, jobs[i]])

FirstOf(rows, n) == SubSeq(rows, 1, IF Len(rows) < n THEN Len(rows) ELSE n)

\* C13: when a major matches and some job is relevant to its keywords, the
\* answer is the first 20 relevant jobs in catalog order, all of them if
\* they are fewer.
C13_KeywordFilterFirstTwenty ==
    [][\A p \in Workers :
          StartsRecommended(p)
          => LET keywords == EarliestMatch[InstitutionOf(req'[p].args.credentials)]
                 relevant == RelevantJobs(keywords)
             IN  relevant # <<>>
                 => /\ req'[p].pc = "done"
                    /\ req'[p].resp.status = 200
                    /\ req'[p].resp.body = FirstOf(relevant, 20)]_vars

\* a caller was given 20 jobs and the catalog holds a further relevant job
C13_Witness ==
    \E p \in Workers :
        /\ req[p].op = "get_recommended_jobs"
        /\ req[p].pc = "done"
        /\ req[p].resp.status = 200
        /\ Len(req[p].resp.body) = 20
        /\ \E i \in 1..Len(jobs) :
              i > req[p].resp.body[20] /\ Relevant[req[p].loc, jobs[i]]

\* worker p answers a recommendation request from its second query
AnswersGeneral(p) ==
    /\ req[p].op = "get_recommended_jobs"
    /\ req[p].pc = "general"
    /\ req'[p].pc = "done"

\* C14: when no major name is found in the field of study (an empty or
\* missing one included) the answer is the first 10 jobs of the catalog in
\* catalog order; when a major is found and no job is relevant to its
\* keywords a second query follows, whose answer is again the first 10 jobs
\* of the catalog.
C14_FallbackFirstTen ==
    [][\A p \in Workers :
          /\ StartsRecommended(p)
             => LET keywords == EarliestMatch[InstitutionOf(req'[p].args.credentials)]
                IN  IF keywords = <<>>
                      THEN /\ req'[p].pc = "done"
                           /\ req'[p].resp.status = 200
                           /\ req'[p].resp.body = FirstOf(Ids(jobs), 10)
                      ELSE RelevantJobs(keywords) = <<>> => req'[p].pc = "general"
          /\ AnswersGeneral(p)
             => /\ req'[p].resp.status = 200
                /\ req'[p].resp.body = FirstOf(Ids(jobs), 10)]_vars

\* on a catalog of one posting that is relevant to no keyword, a caller
\* whose major matched and a caller without a major were both given it
C14_Witness ==
    \E p, q \in Workers :
        /\ req[p].op = "get_recommended_jobs" /\ req[p].pc = "done"
        /\ req[q].op = "get_recommended_jobs" /\ req[q].pc = "done"
        /\ req[p].resp.status = 200 /\ req[q].resp.status = 200
        /\ req[p].loc # <<>>
        /\ req[q].loc = <<>>
        /\ jobs # <<>>
        /\ RelevantJobs(req[p].loc) = <<>>
        /\ req[p].resp.body = Ids(jobs)
        /\ req[q].resp.body = Ids(jobs)

\* C15: a recommendation request of an authenticated caller is answered
\* with status 200 and a sequence of jobs of the catalog, which is empty only
\* if the catalog is empty.
C15_RecommendedNeverFails ==
    [][\A p \in Workers :
          ( /\ Finishes(p)
            /\ StartsRecommended(p) \/ AnswersGeneral(p) )
          => /\ req'[p].resp.status = 200
             /\ \A k \in 1..Len(req'[p].resp.body) : req'[p].resp.body[k] \in 1..Len(jobs)
             /\ jobs # <<>> => req'[p].resp.body # <<>>]_vars

\* a caller without a major was given 10 jobs of the seeded catalog
C15_Witness ==
    \E p \in Workers :
        /\ req[p].op = "get_recommended_jobs"
        /\ req[p].pc = "done"
        /\ req[p].resp.status = 200
        /\ req[p].loc = <<>>
        /\ Len(req[p].resp.body) = 10
        /\ Len(jobs) > 10

\* job_id is the id of no job of the catalog
Unresolved(job_id) == job_id \notin 1..Len(jobs)

\* C16: a submit of an authenticated caller for a job id that resolves to no
\* job is not refused for another reason, and is answered 404 "Job not found"
\* with users, jobs, applications and notifications unchanged.
C16_JobNotFound ==
    [][\A p \in Workers :
          /\ ( /\ Starts(p)
                /\ req'[p].op = "create_application"
                /\ get_current_user(req'[p].args.credentials, now).ok
                /\ Unresolved(req'[p].args.job_id) )
             => /\ req'[p].pc = "job"
                /\ UNCHANGED <<users, jobs, applications, outbox>>
          /\ ( /\ req[p].op = "create_application"
                /\ req[p].pc = "job"
                /\ req'[p].pc # "job"
                /\ Unresolved(req[p].args.job_id) )
             => /\ req'[p].pc = "done"
                /\ req'[p].resp = Response(404, "Job not found", None)
                /\ UNCHANGED <<users, jobs, applications, outbox>>]_vars

\* on the seeded catalog, a submit for a job id beyond it was answered
\* "Job not found" and left no application
C16_Witness ==
    \E p \in Workers :
        /\ req[p].op = "create_application"
        /\ req[p].pc = "done"
        /\ req[p].resp.status = 404
        /\ req[p].resp.detail = "Job not found"
        /\ jobs # <<>>
        /\ Unresolved(req[p].args.job_id)
        /\ \A i \in 1..Len(applications) : applications[i].job_id # req[p].args.job_id

\* worker p answers a submit whose application it has committed
AnswersSubmit(p) ==
    /\ req[p].op = "create_application"
    /\ req[p].pc = "notify"
    /\ req'[p].pc = "done"

\* C17: a submit whose application is committed is answered with success and
\* the id of the application, and the application stays in the table,
\* whether or not the notifier fails.
C17_NotifierFailureSwallowed ==
    [][\A p \in Workers :
          AnswersSubmit(p)
          => /\ applications' = applications
             /\ req'[p].resp.status = 200
             /\ req'[p].resp.body = req[p].loc.application_id]_vars

\* the applications of user u whose job is in the catalog
ListedFor(u) ==
    {i \in 1..Len(applications) :
        applications[i].user_id = u /\ applications[i].job_id \in 1..Len(jobs)}

\* C18: the list of an authenticated caller holds one summary, with the title
\* and company of the job and the status, for each application that is the
\* caller's and whose job resolves, and nothing else: no application of
\* another user, none twice, none whose job does not resolve.
C18_ListForOwnApplications ==
    [][\A p \in Workers :
          ( /\ Starts(p)
            /\ req'[p].op = "get_applications"
            /\ get_current_user(req'[p].args.credentials, now).ok )
          => LET u == get_current_user(req'[p].args.credentials, now).value
                 body == req'[p].resp.body
             IN  /\ req'[p].pc = "done"
                 /\ req'[p].resp.status = 200
                 /\ Len(body) = Cardinality(ListedFor(u))
                 /\ {body[k].id : k \in 1..Len(body)} = ListedFor(u)
                 /\ \A k \in 1..Len(body) :
                       LET app == applications[body[k].id]
                       IN  /\ body[k].job_title = jobs[app.job_id].title
                           /\ body[k].company = jobs[app.job_id].company
                           /\ body[k].status = app.status
                 /\ UNCHANGED <<users, jobs, applications, outbox>>]_vars

\* a caller with applications was given fewer summaries than the table has
\* applications, another user's being left out
C18_Witness ==
    \E p \in Workers :
        /\ req[p].op = "get_applications"
        /\ req[p].pc = "done"
        /\ req[p].resp.status = 200
        /\ req[p].resp.body # <<>>
        /\ Len(req[p].resp.body) < Len(applications)
        /\ \E i \in 1..Len(applications), k \in 1..Len(users) :
              /\ users[k].email = req[p].args.credentials.sub
              /\ applications[i].user_id # k

\* C19: a signup with a date of birth or graduation date that is not a date
\* written YYYY-MM-DD is answered with a client error (a 4xx status), not
\* with a server error, and adds no user.
C19_MalformedDateIsClientError ==
    [][\A p \in Workers :
          ( /\ Finishes(p)
            /\ req'[p].op = "signup"
            /\ ~(DateGiven(req'[p].args.date_of_birth)
                   /\ DateGiven(req'[p].args.graduation_date)) )
          => /\ req'[p].resp.status \in 400..499
             /\ users' = users]_vars

\* the first n jobs of the catalog, after the step, that satisfy the title and
\* location filters of args
TitleAndLocation(args, n) ==
    SelectSeq([i \in 1..n |-> i],
              LAMBDA i : /\ Truthy(args.title) => contains(jobs'[i].title, args.title)
                         /\ Truthy(args.location) => contains(jobs'[i].location, args.location))

\* C20: with requests served one at a time, the answer of a search without a
\* category and of a search with category "Any", and what it does to the
\* catalog, depend on the title and location filters alone: the jobs that
\* satisfy them, the catalog unchanged, if there are any; else the seed
\* postings are added and the whole catalog is the answer.  With no filter
\* at all the answer is every job of the catalog, seeded first if empty.
C20_AnyIsNoCategory ==
    [][\A p \in Workers :
          ( /\ Finishes(p)
            /\ req'[p].op = "get_jobs"
            /\ req'[p].args.category \in {None, "Any"} )
          => LET n == req'[p].loc.catalog
                 matches == TitleAndLocation(req'[p].args, n)
             IN  /\ req'[p].resp.status = 200
                 /\ IF matches # <<>>
                      THEN /\ jobs' = jobs
                           /\ Len(jobs) = n
                           /\ req'[p].resp.body = matches
                      ELSE /\ jobs' = SubSeq(jobs', 1, n) \o sample_jobs
                           /\ req'[p].resp.body = Ids(jobs')
                 /\ (req'[p].args.title = None /\ req'[p].args.location = None)
                      => req'[p].resp.body = Ids(jobs')]_vars

\* on the seeded catalog a search with a title and category "Any" was given
\* the jobs with that title, some but not all of the catalog
C20_Witness ==
    \E p \in Workers :
        /\ req[p].op = "get_jobs"
        /\ req[p].pc = "done"
        /\ req[p].args.category = "Any"
        /\ req[p].args.title # None
        /\ req[p].resp.body # <<>>
        /\ Len(req[p].resp.body) < Len(jobs)
        /\ req[p].loc.catalog = Len(jobs)

\* the id of the user a token names
CallerOf(credentials) ==
    CHOOSE u \in 1..Len(users) : users[u].email = credentials.sub

\* worker p commits the application of its submit
CommitsSubmit(p) ==
    /\ req[p].op = "create_application"
    /\ req[p].pc = "insert"
    /\ req'[p].pc # "insert"

\* C21: a submit that succeeds has added one application, with status
\* "pending", of the caller for the requested job, and at its answer the
\* notifier is called once with the caller's email and the title and company
\* of that job; the notifier is called at no other step, so only after the
\* commit and never for a submit refused with "Already applied" or "Job not
\* found".
C21_SubmitCreatesPendingAndNotifiesOnce ==
    [][/\ \A p \in Workers :
            /\ CommitsSubmit(p)
               => /\ outbox' = outbox
                  /\ applications' = Append(applications,
                         [user_id |-> CallerOf(req[p].args.credentials),
                          job_id |-> req[p].args.job_id,
                          status |-> "pending"])
            /\ (Finishes(p) /\ req'[p].op = "create_application"
                            /\ req'[p].resp.status = 200)
               => LET id == req'[p].resp.body
                      caller == CallerOf(req'[p].args.credentials)
                      job == jobs[req'[p].args.job_id]
                  IN  /\ AnswersSubmit(p)
                      /\ applications' = applications
                      /\ id \in 1..Len(applications)
                      /\ applications[id] = [user_id |-> caller,
                                              job_id |-> req'[p].args.job_id,
                                              status |-> "pending"]
                      /\ outbox' = Append(outbox, [to_email |-> users[caller].email,
                                                   job_title |-> job.title,
                                                   company |-> job.company])
            /\ (Finishes(p) /\ req'[p].op = "create_application"
                            /\ req'[p].resp.status \in {400, 404})
               => outbox' = outbox /\ applications' = applications
       /\ outbox' # outbox
            => \E p \in Workers : AnswersSubmit(p) /\ req'[p].resp.status = 200
       /\ applications' # applications => \E p \in Workers : CommitsSubmit(p)]_vars

\* a submit was answered with success: its application is pending in the
\* table and the one notification sent names the caller and the job
C21_Witness ==
    \E p \in Workers :
        /\ req[p].op = "create_application"
        /\ req[p].pc = "done"
        /\ req[p].resp.status = 200
        /\ applications[req[p].resp.body].status = "pending"
        /\ Len(outbox) = 1
        /\ outbox[1].to_email = req[p].args.credentials.sub
        /\ outbox[1].job_title = jobs[req[p].args.job_id].title

\* the number of copies of the seed postings in the catalog
SeedCopies == Cardinality({i \in 1..Len(jobs) : jobs[i] = sample_jobs[1]})

\* worker p serves a GET /jobs/ that ran its query on an empty catalog
StartedOnEmpty(p) ==
    /\ req[p].op = "get_jobs"
    /\ req[p].loc.catalog = 0

\* C22: when two GET /jobs/ requests served side by side both ran their
\* query on the empty catalog, the seed postings are inserted once: the
\* catalog never holds two copies of them.
C22_ConcurrentSeedOnce ==
    \A p, q \in Workers :
        (p # q /\ StartedOnEmpty(p) /\ StartedOnEmpty(q)) => SeedCopies <= 1
====
